---- MODULE Spec2Model ----
(***************************************************************************)
(* Model of the schema-merge engine (model_composer/composer.py) and of    *)
(* the indentation managers (indent_managers/base.py, logger.py).          *)
(*                                                                         *)
(* A type annotation is a record [origin, name, args] as typing's          *)
(* get_origin / get_args see it: a named type has origin "none" and no     *)
(* args, a Union has origin "Union" and its members as args (Optional[T]   *)
(* is Union[T, None]).  A FieldInfo is [annotation, default, metadata].    *)
(* A schema class is [name, kind, model_fields], kind being the attribute  *)
(* through which the class exposes its field table.                        *)
(***************************************************************************)
EXTENDS Integers, Sequences, FiniteSets, TLC

VARIABLES subpayloads, specpayloads, merge_result, report_map,
          _indent, _local_indent, frames, raising, _tab_size

vars == <<subpayloads, specpayloads, merge_result, report_map,
          _indent, _local_indent, frames, raising, _tab_size>>

composer_vars == <<subpayloads, specpayloads, merge_result, report_map>>
indent_vars == <<_indent, _local_indent, frames, raising, _tab_size>>

(* ---------------------------------------------------------------- bounds *)

\* schemas passed to one call, sub and spec lists together
MaxSchemas == 3
\* nesting depth of indent / tab blocks
MaxDepth == 3
\* |n| of indent(n) and |k| of tab(k)
MaxStep == 2

(* ----------------------------------------------------------------- types *)

Range(s) == {s[i] : i \in 1..Len(s)}

Named(n) == [origin |-> "none", name |-> n, args |-> <<>>]
UnionOf(members) == [origin |-> "Union", name |-> "Union", args |-> members]

NoneType == Named("NoneType")
IntT == Named("int")
StrT == Named("str")
OptInt == UnionOf(<<IntT, NoneType>>)
IntStrNone == UnionOf(<<IntT, StrT, NoneType>>)

get_origin(tp) == tp.origin
get_args(tp) == tp.args

\* typing.Optional[T] = Union[T, None]; Union flattens its members and
\* drops duplicates, so a union that already holds None is unchanged.
OptionalOf(tp) ==
    IF get_origin(tp) = "Union"
    THEN IF NoneType \in Range(get_args(tp)) THEN tp
         ELSE UnionOf(get_args(tp) \o <<NoneType>>)
    ELSE IF tp = NoneType THEN NoneType
    ELSE UnionOf(<<tp, NoneType>>)

\* the display form: the names of the members, in order, that the code joins
\* with " or " (one name for a named type or a single-member Optional)
RECURSIVE prettify_type(_)
prettify_type(tp) ==
    IF get_origin(tp) = "Union"
    THEN LET args == SelectSeq(get_args(tp), LAMBDA a : a # NoneType)
             join[i \in 0..Len(args)] ==
                 IF i = 0 THEN <<>> ELSE join[i - 1] \o prettify_type(args[i])
         IN  IF Len(args) = 1 THEN prettify_type(args[1]) ELSE join[Len(args)]
    ELSE <<tp.name>>

(* ---------------------------------------------------------------- inputs *)

is_required(info) == info.default = "PydanticUndefined"

FieldInfoOf(ann, dflt, meta) ==
    [annotation |-> ann, default |-> dflt, metadata |-> meta]

\* the declarations of field "f" that an input class may carry
FInfos ==
    { FieldInfoOf(IntT, "PydanticUndefined", <<>>),
      FieldInfoOf(IntT, "None", <<>>),
      FieldInfoOf(StrT, "PydanticUndefined", <<>>),
      FieldInfoOf(OptInt, "None", <<>>),
      FieldInfoOf(IntStrNone, "None", <<>>) }

\* the declaration of field "g"
GInfo == FieldInfoOf(StrT, "PydanticUndefined", << <<"max_length", "8">> >>)

\* a class declares f alone, or f as Optional[int] together with g
FieldTables ==
    { << [name |-> "f", info |-> i] >> : i \in FInfos }
    \cup { << [name |-> "f", info |-> FieldInfoOf(OptInt, "None", <<>>)],
              [name |-> "g", info |-> GInfo] >> }

ClassNames == {"A", "B"}

\* classes that expose model_fields (Pydantic v2), the typed inputs: two class
\* names with every field table, and a third name for a class that declares
\* only f, as a required int
Classes ==
    { [name |-> n, kind |-> "model_fields", model_fields |-> t] :
        n \in ClassNames, t \in FieldTables }
    \cup { [name |-> "C", kind |-> "model_fields",
            model_fields |->
                << [name |-> "f",
                    info |-> FieldInfoOf(IntT, "PydanticUndefined", <<>>)] >>] }

\* classes of every kind: model_fields, __fields__ (Pydantic v1), or neither
AnyKindClasses ==
    { [name |-> n, kind |-> k, model_fields |-> << [name |-> "f", info |-> i] >>] :
        n \in ClassNames,
        k \in {"model_fields", "__fields__", "other"},
        i \in { FieldInfoOf(IntT, "PydanticUndefined", <<>>),
                FieldInfoOf(StrT, "PydanticUndefined", <<>>),
                FieldInfoOf(OptInt, "None", <<>>) } }

SeqsUpTo(S, n) == UNION { [1..k -> S] : k \in 0..n }

(* -------------------------------------------------------- merge_payloads *)

\* fields.setdefault(name, []).append(d), on a dict kept as the sequence of
\* its (name, defs) items in insertion order
setdefault_append(fields, name, d) ==
    IF \E i \in 1..Len(fields) : fields[i].name = name
    THEN [i \in 1..Len(fields) |->
            IF fields[i].name = name
            THEN [fields[i] EXCEPT !.defs = Append(@, d)]
            ELSE fields[i]]
    ELSE Append(fields, [name |-> name, defs |-> <<d>>])

\* one class's contribution to the aggregate: the same four facts per field
\* from model_fields (line 60) or from __fields__ (line 63); a class that
\* exposes neither field table contributes nothing
CollectClass(fields, cls) ==
    LET step[i \in 0..Len(cls.model_fields)] ==
            IF i = 0 THEN fields
            ELSE LET e == cls.model_fields[i]
                 IN  setdefault_append(step[i - 1], e.name,
                         [raw |-> e.info.annotation,
                          required |-> is_required(e.info),
                          info |-> e.info,
                          src |-> cls.name])
    IN  IF cls.kind \in {"model_fields", "__fields__"}
        THEN step[Len(cls.model_fields)]
        ELSE fields

CollectFields(subs, specs) ==
    LET all == subs \o specs
        step[i \in 0..Len(all)] ==
            IF i = 0 THEN <<>> ELSE CollectClass(step[i - 1], all[i])
    IN  step[Len(all)]

SpecNames(specs) == {specs[i].name : i \in 1..Len(specs)}

\* lines 71-79: the base type of one contribution and whether it was Optional
Normalize(raw) ==
    IF get_origin(raw) = "Union" /\ NoneType \in Range(get_args(raw))
    THEN LET args == SelectSeq(get_args(raw), LAMBDA a : a # NoneType)
         IN  [base |-> IF Len(args) = 1 THEN args[1] ELSE raw, opt |-> TRUE]
    ELSE [base |-> raw, opt |-> FALSE]

base_types(defs) == [i \in 1..Len(defs) |-> Normalize(defs[i].raw).base]
made_optional(defs) == [i \in 1..Len(defs) |-> Normalize(defs[i].raw).opt]

spec_requires(defs, spec_names) ==
    \E i \in 1..Len(defs) : defs[i].src \in spec_names /\ defs[i].required

\* a snapshot of the first two contributions only
ModelsOfFirstTwo(defs) ==
    [s \in {defs[i].src : i \in 1..(IF Len(defs) < 2 THEN Len(defs) ELSE 2)} |->
        LET first == CHOOSE i \in 1..Len(defs) : defs[i].src = s
        IN  [field_type |-> prettify_type(defs[first].raw),
             required |-> defs[first].required]]

\* the dict comprehension of a finding: one entry per source name, a later
\* contribution of the same name replacing an earlier one
ModelsOf(defs) ==
    [s \in {defs[i].src : i \in 1..Len(defs)} |->
        LET last == CHOOSE i \in 1..Len(defs) :
                      /\ defs[i].src = s
                      /\ \A j \in 1..Len(defs) : defs[j].src = s => j <= i
        IN  [field_type |-> prettify_type(defs[last].raw),
             required |-> defs[last].required]]

MergeReport(name, issue, defs) ==
    [field_name |-> name, issue |-> issue, models |-> ModelsOf(defs)]

\* every optional contribution, whether or not its source is a spec
bad_subsAnySource(defs, spec_names) ==
    LET idx == SelectSeq([i \in 1..Len(defs) |-> i],
                   LAMBDA i : made_optional(defs)[i])
    IN  [k \in 1..Len(idx) |-> defs[idx[k]].src]

bad_subs(defs, spec_names) ==
    LET idx == SelectSeq([i \in 1..Len(defs) |-> i],
                   LAMBDA i : made_optional(defs)[i] /\ defs[i].src \notin spec_names)
    IN  [k \in 1..Len(idx) |-> defs[idx[k]].src]

\* a comparison of the first two contributions only
MergeIssueFirstTwo(defs, spec_names) ==
    IF Len(defs) > 1 /\ base_types(defs)[1] # base_types(defs)[2] THEN "type_mismatch"
    ELSE IF spec_requires(defs, spec_names) /\ bad_subs(defs, spec_names) # <<>>
         THEN "spec_violation"
    ELSE "none"

\* lines 84-114: the finding of one field, or "none"
MergeIssue(defs, spec_names) ==
    IF Cardinality(Range(base_types(defs))) > 1 THEN "type_mismatch"
    ELSE IF spec_requires(defs, spec_names) /\ bad_subs(defs, spec_names) # <<>>
         THEN "spec_violation"
    ELSE "none"

\* the first contribution, whatever its source
chosen_infoFirst(defs, spec_names) == defs[1].info

\* line 118: the first contribution of a spec-named source, else the first
chosen_info(defs, spec_names) ==
    IF \E i \in 1..Len(defs) : defs[i].src \in spec_names
    THEN defs[CHOOSE i \in 1..Len(defs) :
                 /\ defs[i].src \in spec_names
                 /\ \A j \in 1..(i - 1) : defs[j].src \notin spec_names].info
    ELSE defs[1].info

\* lines 123-126: the metadata pairs as keyword arguments
ExtrasOf(info) ==
    [k \in {info.metadata[i][1] : i \in 1..Len(info.metadata)} |->
        LET last == CHOOSE i \in 1..Len(info.metadata) :
                      /\ info.metadata[i][1] = k
                      /\ \A j \in 1..Len(info.metadata) :
                            info.metadata[j][1] = k => j <= i
        IN  info.metadata[last][2]]

\* line 128
FinalType(raw_type, final_optional) ==
    IF final_optional /\ get_origin(raw_type) = "Union"
    THEN get_args(raw_type)[1]
    ELSE raw_type

\* lines 117-130: the core field of a conflict-free field.  A FieldInfo always
\* has a default attribute, so line 120 decides the default: the chosen
\* source's own, or Ellipsis (no default) when it has none.
CoreField(name, defs, spec_names) ==
    LET final_optional ==
            bad_subs(defs, spec_names) # <<>> /\ ~spec_requires(defs, spec_names)
        chosen == chosen_info(defs, spec_names)
        default == IF chosen.default # "PydanticUndefined"
                   THEN chosen.default ELSE "Ellipsis"
        final_type == FinalType(defs[1].raw, final_optional)
        ann == IF final_optional THEN OptionalOf(final_type) ELSE final_type
    IN  [name |-> name, ann |-> ann, default |-> default,
         extras |-> ExtrasOf(chosen)]

\* a merge that returns the conflict-free fields whenever there are some
merge_payloadsPartial(subs, specs) ==
    LET spec_names == SpecNames(specs)
        fields == CollectFields(subs, specs)
        withIssue == SelectSeq(fields,
                        LAMBDA e : MergeIssue(e.defs, spec_names) # "none")
        clean == SelectSeq(fields,
                        LAMBDA e : MergeIssue(e.defs, spec_names) = "none")
        reports == [i \in 1..Len(withIssue) |->
                      MergeReport(withIssue[i].name,
                                  MergeIssue(withIssue[i].defs, spec_names),
                                  withIssue[i].defs)]
        core_fields == [i \in 1..Len(clean) |->
                          CoreField(clean[i].name, clean[i].defs, spec_names)]
    IN  IF reports # <<>> /\ clean = <<>>
        THEN [status |-> "PayloadMergeError", findings |-> reports,
              core |-> <<>>]
        ELSE [status |-> "CorePayload", findings |-> <<>>,
              core |-> core_fields]

\* lines 51-148
merge_payloads(subs, specs) ==
    LET spec_names == SpecNames(specs)
        fields == CollectFields(subs, specs)
        withIssue == SelectSeq(fields,
                        LAMBDA e : MergeIssue(e.defs, spec_names) # "none")
        clean == SelectSeq(fields,
                        LAMBDA e : MergeIssue(e.defs, spec_names) = "none")
        reports == [i \in 1..Len(withIssue) |->
                      MergeReport(withIssue[i].name,
                                  MergeIssue(withIssue[i].defs, spec_names),
                                  withIssue[i].defs)]
        core_fields == [i \in 1..Len(clean) |->
                          CoreField(clean[i].name, clean[i].defs, spec_names)]
    IN  IF reports # <<>>
        THEN [status |-> "PayloadMergeError", findings |-> reports,
              core |-> <<>>]
        ELSE [status |-> "CorePayload", findings |-> <<>>,
              core |-> core_fields]

(* ---------------------------------------------- generate_payload_reports *)

\* a report pass that checks the types only
ReportIssueTypesOnly(defs, spec_names) ==
    IF Cardinality(Range(base_types(defs))) > 1 THEN "type_mismatch" ELSE "none"

\* lines 217-244: the finding of one field in the report pass, or "none"
ReportIssue(defs, spec_names) ==
    IF Cardinality(Range(base_types(defs))) > 1 THEN "type_mismatch"
    ELSE IF spec_requires(defs, spec_names) /\ bad_subs(defs, spec_names) # <<>>
         THEN "spec_violation"
    ELSE "none"

\* lines 156-163
DefinitionOf(cls) ==
    IF cls.kind \in {"model_fields", "__fields__"}
    THEN [i \in 1..Len(cls.model_fields) |->
            [name |-> cls.model_fields[i].name,
             type |-> prettify_type(cls.model_fields[i].info.annotation),
             required |-> is_required(cls.model_fields[i].info),
             default |-> IF cls.model_fields[i].info.default = "PydanticUndefined"
                         THEN "None" ELSE cls.model_fields[i].info.default]]
    ELSE <<>>

\* lines 151-182
payload_model_to_json(cls, reports) ==
    [definition |-> DefinitionOf(cls),
     conflicts |-> SelectSeq(reports, LAMBDA r : cls.name \in DOMAIN r.models)]

\* lines 189-250
generate_payload_reports(subs, specs) ==
    LET spec_names == SpecNames(specs)
        fields == CollectFields(subs, specs)
        withIssue == SelectSeq(fields,
                        LAMBDA e : ReportIssue(e.defs, spec_names) # "none")
        reports == [i \in 1..Len(withIssue) |->
                      MergeReport(withIssue[i].name,
                                  ReportIssue(withIssue[i].defs, spec_names),
                                  withIssue[i].defs)]
        all == subs \o specs
    IN  [n \in {all[i].name : i \in 1..Len(all)} |->
            LET last == CHOOSE i \in 1..Len(all) :
                          /\ all[i].name = n
                          /\ \A j \in 1..Len(all) : all[j].name = n => j <= i
            IN  payload_model_to_json(all[last], reports)]

(* --------------------------------------------------------------- actions *)

NotCalled == [status |-> "not_called", findings |-> <<>>, core |-> <<>>]
NoReports == [status |-> "not_called"]

IndentIdle ==
    /\ _indent = 0
    /\ _local_indent = 0
    /\ frames = <<>>
    /\ raising = FALSE
    /\ _tab_size = 4

InputsFrom(pool) ==
    \E all \in SeqsUpTo(pool, MaxSchemas) :
        \E k \in 0..Len(all) :
            /\ subpayloads = SubSeq(all, 1, k)
            /\ specpayloads = SubSeq(all, k + 1, Len(all))

Init ==
    /\ InputsFrom(Classes)
    /\ merge_result = NotCalled
    /\ report_map = NoReports
    /\ IndentIdle

MergePayloads ==
    /\ merge_result = NotCalled
    /\ merge_result' = merge_payloads(subpayloads, specpayloads)
    /\ UNCHANGED <<subpayloads, specpayloads, report_map, indent_vars>>

GeneratePayloadReports ==
    /\ report_map = NoReports
    /\ report_map' = [status |-> "returned",
                      map |-> generate_payload_reports(subpayloads, specpayloads)]
    /\ UNCHANGED <<subpayloads, specpayloads, merge_result, indent_vars>>

Next == MergePayloads \/ GeneratePayloadReports

Spec == Init /\ [][Next]_vars

\* the same calls on inputs of every kind
InitAny ==
    /\ InputsFrom(AnyKindClasses)
    /\ merge_result = NotCalled
    /\ report_map = NoReports
    /\ IndentIdle

SpecAny == InitAny /\ [][Next]_vars

(* ------------------------------------------------------- indent managers *)

Max(a, b) == IF a >= b THEN a ELSE b

Steps == (0 - MaxStep)..MaxStep

\* an adjustment without the floor at 0
EnteredUnclamped(prev, n) == prev + n

\* base.py 48-49: the level a block opened with indent(n) sets
Entered(prev, n) == Max(0, prev + n)

\* logger.py 42-43: the same on the thread-local level
LocalEntered(prev, n) == Max(0, prev + n)

\* a block opened by BaseIndentManager's indent: prev is the generator's local
EnterBlock(n) ==
    /\ ~raising
    /\ Len(frames) < MaxDepth
    /\ frames' = <<[target |-> "_indent", prev |-> _indent, n |-> n]>> \o frames
    /\ _indent' = Entered(_indent, n)
    /\ UNCHANGED <<_local_indent, raising, _tab_size, composer_vars>>

\* a block opened by the indent that LoggingIndentManager.__enter__ returns
EnterLocalBlock(n) ==
    /\ ~raising
    /\ Len(frames) < MaxDepth
    /\ frames' = <<[target |-> "_local", prev |-> _local_indent, n |-> n]>> \o frames
    /\ _local_indent' = LocalEntered(_local_indent, n)
    /\ UNCHANGED <<_indent, raising, _tab_size, composer_vars>>

IndentEnter == \E n \in Steps : EnterBlock(n)

TabEnter == \E k \in Steps : EnterBlock(_tab_size * k)

LocalIndentEnter == \E n \in Steps : EnterLocalBlock(n)

LocalTabEnter == \E k \in Steps : EnterLocalBlock(_tab_size * k)

\* the body of the innermost open block raises
BodyRaises ==
    /\ ~raising
    /\ frames # <<>>
    /\ raising' = TRUE
    /\ UNCHANGED <<_indent, _local_indent, frames, _tab_size, composer_vars>>

\* the finally clause of the innermost block, on a normal exit or while an
\* exception propagates (the context manager does not swallow it)
LeaveBlock ==
    /\ frames # <<>>
    /\ frames' = Tail(frames)
    /\ IF Head(frames).target = "_indent"
       THEN _indent' = Head(frames).prev /\ UNCHANGED _local_indent
       ELSE _local_indent' = Head(frames).prev /\ UNCHANGED _indent
    /\ UNCHANGED <<raising, _tab_size, composer_vars>>

\* the caller's except clause, at whatever depth it sits
CallerCatches ==
    /\ raising
    /\ raising' = FALSE
    /\ UNCHANGED <<_indent, _local_indent, frames, _tab_size, composer_vars>>

InitIndent ==
    /\ subpayloads = <<>>
    /\ specpayloads = <<>>
    /\ merge_result = NotCalled
    /\ report_map = NoReports
    /\ _indent = 0
    /\ _local_indent = 0
    /\ frames = <<>>
    /\ raising = FALSE
    /\ _tab_size \in {0 - 3, 1, 4}

NextIndent ==
    \/ IndentEnter
    \/ TabEnter
    \/ LocalIndentEnter
    \/ LocalTabEnter
    \/ BodyRaises
    \/ LeaveBlock
    \/ CallerCatches

SpecIndent == InitIndent /\ [][NextIndent]_vars

(* ------------------------------------------ the inputs, as the claims see them *)

AllClasses == subpayloads \o specpayloads
Positions == 1..Len(AllClasses)
IsSpecPos(p) == p > Len(subpayloads)

Declares(p, f) ==
    \E i \in 1..Len(AllClasses[p].model_fields) :
        AllClasses[p].model_fields[i].name = f

InfoAt(p, f) ==
    LET t == AllClasses[p].model_fields
    IN  t[CHOOSE i \in 1..Len(t) : t[i].name = f].info

FieldNames == {"f", "g"}
Declarers(f) == {p \in Positions : Declares(p, f)}
DeclaredNames == {f \in FieldNames : Declarers(f) # {}}

NamesDistinct ==
    \A p, q \in Positions : p # q => AllClasses[p].name # AllClasses[q].name

\* a source is known to the code as a spec through its class name
SpecNamed(p) == \E q \in Positions : IsSpecPos(q) /\ AllClasses[q].name = AllClasses[p].name

DeclaredOptional(ann) == ann.origin = "Union" /\ NoneType \in Range(ann.args)

NonNone(ann) == SelectSeq(ann.args, LAMBDA a : a # NoneType)

\* the type after unwrapping a single-member nullable wrapper
SingleUnwrapped(ann) ==
    IF DeclaredOptional(ann) /\ Len(NonNone(ann)) = 1 THEN NonNone(ann)[1] ELSE ann

\* the type with its nullable wrapper removed, whatever it wraps
WrapperRemoved(ann) ==
    IF ~DeclaredOptional(ann) THEN ann
    ELSE IF Len(NonNone(ann)) = 1 THEN NonNone(ann)[1]
    ELSE UnionOf(NonNone(ann))

MergeCalled == merge_result.status # "not_called"
MergeRaised == merge_result.status = "PayloadMergeError"
MergeReturned == merge_result.status = "CorePayload"
ReportsReturned == report_map.status = "returned"

Findings == Range(merge_result.findings)
FindingsOn(f) == {r \in Findings : r.field_name = f}
CoreNames == {merge_result.core[i].name : i \in 1..Len(merge_result.core)}
CoreOf(f) ==
    merge_result.core[CHOOSE i \in 1..Len(merge_result.core) :
                          merge_result.core[i].name = f]

\* two sources of f whose base types differ
BaseTypesDiffer(f) ==
    \E p, q \in Declarers(f) :
        SingleUnwrapped(InfoAt(p, f).annotation)
            # SingleUnwrapped(InfoAt(q, f).annotation)

(* ------------------------------------------------------------------- C1 *)

\* C1: when two sources of a field differ in base type, merge_payloads raises
\* PayloadMergeError with a type_mismatch finding for that field, in whatever
\* order and through whichever list the schemas are passed.
C1_TypeMismatchAlwaysReported ==
    MergeCalled =>
        \A f \in DeclaredNames :
            BaseTypesDiffer(f) =>
                /\ MergeRaised
                /\ \E r \in FindingsOn(f) : r.issue = "type_mismatch"

\* three sources, the odd one last and in the spec list, the other two agreeing
C1_Witness ==
    /\ MergeRaised
    /\ Len(subpayloads) = 2 /\ Len(specpayloads) = 1
    /\ Declarers("f") = {1, 2, 3}
    /\ InfoAt(1, "f").annotation = IntT
    /\ InfoAt(2, "f").annotation = OptInt
    /\ InfoAt(3, "f").annotation = StrT
    /\ \E r \in FindingsOn("f") : r.issue = "type_mismatch"

(* ------------------------------------------------------------------- C2 *)

\* a source counts as a spec schema when its class name is a spec schema's
SpecRequires(f) ==
    \E p \in Declarers(f) : SpecNamed(p) /\ is_required(InfoAt(p, f))

OptionalOutsideSpecs(f) ==
    \E q \in Declarers(f) :
        ~SpecNamed(q) /\ DeclaredOptional(InfoAt(q, f).annotation)

OptionalOnlyInSpecs(f) ==
    \A q \in Declarers(f) :
        DeclaredOptional(InfoAt(q, f).annotation) => SpecNamed(q)

\* C2 as stated: a spec-required field that a non-spec source declares optional
\* always gets a spec_violation finding, and a field that only spec schemas
\* declare optional gets none.
C2_AsStated ==
    MergeCalled =>
        \A f \in DeclaredNames :
            /\ SpecRequires(f) /\ OptionalOutsideSpecs(f) =>
                  /\ MergeRaised
                  /\ \E r \in FindingsOn(f) : r.issue = "spec_violation"
            /\ OptionalOnlyInSpecs(f) =>
                  ~\E r \in FindingsOn(f) : r.issue = "spec_violation"

\* C2, amended: a field that a spec schema requires and that a non-spec source
\* declares optional makes merge_payloads raise with exactly one finding for
\* the field, spec_violation when the base types of its sources agree and
\* type_mismatch when they differ; a field that only spec schemas declare
\* optional gets no spec_violation finding.
C2_SpecViolationUnlessMismatch ==
    MergeCalled =>
        \A f \in DeclaredNames :
            /\ SpecRequires(f) /\ OptionalOutsideSpecs(f) =>
                  /\ MergeRaised
                  /\ {r.issue : r \in FindingsOn(f)} =
                        {IF BaseTypesDiffer(f) THEN "type_mismatch"
                         ELSE "spec_violation"}
            /\ OptionalOnlyInSpecs(f) =>
                  ~\E r \in FindingsOn(f) : r.issue = "spec_violation"

\* a required spec field, an optional sub and a plain sub of the same base type
C2_Witness ==
    /\ MergeRaised
    /\ Len(subpayloads) = 2 /\ Len(specpayloads) = 1
    /\ NamesDistinct
    /\ Declarers("f") = {1, 2, 3}
    /\ InfoAt(1, "f").annotation = OptInt
    /\ InfoAt(2, "f").annotation = IntT
    /\ InfoAt(3, "f") = FieldInfoOf(IntT, "PydanticUndefined", <<>>)
    /\ \E r \in FindingsOn("f") : r.issue = "spec_violation"

(* ------------------------------------------------------------------- C3 *)

MetaPairs(info) == Range(info.metadata)
ExtraPairs(c) == {<<k, c.extras[k]>> : k \in DOMAIN c.extras}

\* C3: when every field name is declared by at most one schema, merge_payloads
\* returns a core schema whose fields are all the declared names, each with
\* the type, required flag, default and metadata of its one declaration.
C3_DisjointFieldsMergeVerbatim ==
    (MergeCalled /\ \A f \in FieldNames : Cardinality(Declarers(f)) <= 1) =>
        /\ MergeReturned
        /\ CoreNames = DeclaredNames
        /\ \A f \in DeclaredNames :
              LET i == InfoAt(CHOOSE p \in Declarers(f) : TRUE, f)
                  c == CoreOf(f)
              IN  /\ c.ann = i.annotation
                  /\ (c.default = "Ellipsis") = is_required(i)
                  /\ ~is_required(i) => c.default = i.default
                  /\ ExtraPairs(c) = MetaPairs(i)

(* ------------------------------------------------------------------- C4 *)

ReportFindings ==
    UNION {Range(report_map.map[n].conflicts) : n \in DOMAIN report_map.map}
ReportedFields == {r.field_name : r \in ReportFindings}
RejectedFields == {r.field_name : r \in Findings}

\* the report pass, run on the current inputs, returns one entry per class name
ReportsCallable ==
    DOMAIN generate_payload_reports(subpayloads, specpayloads)
        = {AllClasses[p].name : p \in Positions}

\* C4: the report pass and the merge agree field by field: a field has no
\* finding in any schema's report exactly when the merge keeps it, and has one
\* exactly when the merge rejects it; the report map, one entry per class
\* name, is also returned when the merge raises.
C4_ReportsAgreeWithMerge ==
    /\ (MergeCalled /\ ReportsReturned) =>
          /\ \A f \in DeclaredNames :
                /\ f \in ReportedFields <=> f \in RejectedFields
                /\ MergeReturned => (f \notin ReportedFields <=> f \in CoreNames)
          /\ MergeRaised <=> ReportedFields # {}
    /\ ReportsReturned =>
          DOMAIN report_map.map = {AllClasses[p].name : p \in Positions}
    /\ MergeRaised => ReportsCallable

\* both calls made, the merge raised on f and g is reported clean
C4_Witness ==
    /\ MergeRaised
    /\ ReportsReturned
    /\ DeclaredNames = {"f", "g"}
    /\ ReportedFields = {"f"}
    /\ \E r \in ReportFindings : r.issue = "spec_violation"

(* ------------------------------------------------------------------- C5 *)

HasFinding(f) ==
    \/ BaseTypesDiffer(f)
    \/ SpecRequires(f) /\ OptionalOutsideSpecs(f)

\* C5: merge_payloads returns a core schema exactly when no field has a
\* finding; with any finding it raises and returns no core schema, not even
\* one of the conflict-free fields.
C5_AnyFindingAborts ==
    MergeCalled =>
        /\ MergeReturned <=> \A f \in DeclaredNames : ~HasFinding(f)
        /\ MergeReturned => CoreNames = DeclaredNames /\ Findings = {}
        /\ MergeRaised =>
              /\ merge_result.core = <<>>
              /\ RejectedFields = {f \in DeclaredNames : HasFinding(f)}

\* f is in conflict while g is conflict-free
C5_Witness ==
    /\ MergeRaised
    /\ DeclaredNames = {"f", "g"}
    /\ HasFinding("f")
    /\ ~HasFinding("g")
    /\ merge_result.core = <<>>

(* ------------------------------------------------------------------- C6 *)

Unrecognized(p) == AllClasses[p].kind \notin {"model_fields", "__fields__"}

\* C6: an input schema that exposes neither supported field table makes
\* merge_payloads and generate_payload_reports fail with UnsupportedSchemaKind
\* rather than go on without that schema's fields.
C6_UnsupportedKindIsAnError ==
    (\E p \in Positions : Unrecognized(p)) =>
        /\ MergeCalled => merge_result.status = "UnsupportedSchemaKind"
        /\ report_map.status # "returned"

(* ------------------------------------------------------------------- C7 *)

NamesOfDeclarers(f) == {AllClasses[p].name : p \in Declarers(f)}

SnapshotOf(p, f) ==
    [field_type |-> prettify_type(InfoAt(p, f).annotation),
     required |-> is_required(InfoAt(p, f))]

LastNamed(n, f) ==
    CHOOSE p \in Declarers(f) :
        /\ AllClasses[p].name = n
        /\ \A q \in Declarers(f) : AllClasses[q].name = n => q <= p

AllFindings ==
    (IF MergeCalled THEN Findings ELSE {})
    \cup (IF ReportsReturned THEN ReportFindings ELSE {})

ReportsListByName ==
    ReportsReturned =>
        \A n \in DOMAIN report_map.map :
            Range(report_map.map[n].conflicts)
                = {r \in ReportFindings : n \in DOMAIN r.models}

\* C7 as stated: every finding has one snapshot entry per declaring schema, as
\* many entries as contributions, and each schema's report lists exactly the
\* findings whose snapshot names it.
C7_AsStated ==
    /\ \A r \in AllFindings :
          /\ Cardinality(DOMAIN r.models) = Cardinality(Declarers(r.field_name))
          /\ \A p \in Declarers(r.field_name) :
                /\ AllClasses[p].name \in DOMAIN r.models
                /\ r.models[AllClasses[p].name] = SnapshotOf(p, r.field_name)
    /\ ReportsListByName

\* C7, amended: every finding has one snapshot entry per class name among the
\* declaring schemas, conflicting or not, holding the display type and the
\* required flag of the last declaring schema of that name; so there are
\* as many entries as contributions when the declaring schemas bear distinct
\* names; each schema's report lists exactly the findings whose snapshot
\* names it.
C7_SnapshotPerSourceName ==
    /\ \A r \in AllFindings :
          /\ DOMAIN r.models = NamesOfDeclarers(r.field_name)
          /\ \A n \in DOMAIN r.models :
                r.models[n] = SnapshotOf(LastNamed(n, r.field_name), r.field_name)
          /\ NamesDistinct =>
                Cardinality(DOMAIN r.models) = Cardinality(Declarers(r.field_name))
    /\ ReportsListByName

\* a spec_violation finding that also lists the sub that causes no conflict
C7_Witness ==
    /\ MergeRaised
    /\ ReportsReturned
    /\ NamesDistinct
    /\ Len(subpayloads) = 2 /\ Len(specpayloads) = 1
    /\ InfoAt(1, "f").annotation = IntT
    /\ Declarers("f") = {1, 2, 3}
    /\ \E r \in FindingsOn("f") :
          r.issue = "spec_violation" /\ Cardinality(DOMAIN r.models) = 3

(* ------------------------------------------------------------------- C8 *)

FirstDeclarer(f) == CHOOSE p \in Declarers(f) : \A q \in Declarers(f) : p <= q

ResolvedOptional(f) == OptionalOutsideSpecs(f) /\ ~SpecRequires(f)

\* C8: the core type of a conflict-free field is the base type of its first
\* contribution, wrapped as nullable exactly when the field is resolved
\* optional: a field not resolved optional keeps no nullable wrapper, and a
\* resolved-optional field keeps the whole inner type.
C8_CoreTypeIsFirstBaseType ==
    MergeReturned =>
        \A f \in CoreNames :
            LET base == WrapperRemoved(InfoAt(FirstDeclarer(f), f).annotation)
            IN  CoreOf(f).ann =
                    IF ResolvedOptional(f) THEN OptionalOf(base) ELSE base

(* ------------------------------------------------------------------- C9 *)

AnyRequires(f) == \E p \in Declarers(f) : is_required(InfoAt(p, f))

ChosenDeclarer(f) ==
    IF \E p \in Declarers(f) : SpecNamed(p)
    THEN CHOOSE p \in Declarers(f) :
            SpecNamed(p) /\ \A q \in Declarers(f) : SpecNamed(q) => p <= q
    ELSE FirstDeclarer(f)

LevelOf(target) == IF target = "_indent" THEN _indent ELSE _local_indent
LevelAfter(target) == IF target = "_indent" THEN _indent' ELSE _local_indent'

\* C10: in any properly nested run of indent(n) and tab(k) blocks the level is
\* never negative, entering a block sets it to max(0, previous + n), leaving a
\* block, normally or through an exception, sets it back to the value it had
\* before the block was entered, and it is 0 once all blocks are left.
C10_IndentRestoredAndNonNegative ==
    [][ /\ _indent' >= 0 /\ _local_indent' >= 0
        /\ Len(frames') > Len(frames) =>
              LET t == Head(frames').target
                  n == Head(frames').n
              IN  LevelAfter(t) = Max(0, LevelOf(t) + n)
        /\ Len(frames') < Len(frames) =>
              LET t == Head(frames).target
                  inner == { i \in 1..Len(frames') : frames'[i].target = t }
              IN  /\ LevelAfter(t) = Head(frames).prev
                  /\ IF inner = {}
                     THEN LevelAfter(t) = 0
                     ELSE LET e == frames'[CHOOSE i \in inner :
                                                \A j \in inner : i <= j]
                          IN  LevelAfter(t) = Max(0, e.prev + e.n)
        /\ frames' = <<>> => _indent' = 0 /\ _local_indent' = 0
      ]_vars

\* an exception raised inside a block has unwound every open block
C10_Witness ==
    /\ raising
    /\ frames = <<>>
    /\ _indent = 0
    /\ _local_indent = 0

====
